---- MODULE Spec2Model ----
(***************************************************************************)
(* Visit lifecycle and premise-scoped authorization of the visitor         *)
(* check-in platform: the visits table under its row-level policies, the   *)
(* manage-visits dashboard handlers (approve, deny), the deny and checkout *)
(* routes, the visitor form page that creates visits, and the submit route *)
(* with its identity steps on profiles.  Spec is the lifecycle of a visit  *)
(* in the deployed store; SpecIntake is intake alone, over every store of  *)
(* one form and one QR code the schema admits.                             *)
(*                                                                         *)
(* Every handler is split at its awaits on the store: one action per       *)
(* stretch of code between two store round trips, so that the requests of  *)
(* different callers interleave exactly where the code suspends.           *)
(***************************************************************************)
EXTENDS Integers, Sequences, FiniteSets, TLC

(* ------------------------------ bounds -------------------------------- *)
MaxVisits == 1
MaxReasonLen == 1
MaxClock == 2
MaxCalls == 2
MaxSubs == 2
MaxRuns == 2
MaxHops == 4

(* ----------------------------- universes ------------------------------ *)
NULL == "null"
Users == {"alice", "bob"}
NoSession == "no_session"
Principals == Users \cup {NoSession}
PremiseIds == {"p1", "p2"}
QrIdentifiers == {"qr1", "qr2"}
FormIds == {"f1", "f2"}
FormNames == {"v0", "v1"}
FormDefinitions == {"d0", "d1"}
VisitIds == 1..MaxVisits
Calls == 1..MaxCalls
Subs == 1..MaxSubs
Runs == 1..MaxRuns

Statuses == {"pending_approval", "checked_in", "approved", "denied", "checked_out"}

\* A reason is a string, modelled as a sequence of characters; a cancelled
\* prompt() yields the JavaScript null, and a column that was never written
\* holds SQL NULL.
Chars == {" ", "x"}
Reasons == UNION {[1..n -> Chars] : n \in 0..MaxReasonLen}
PromptCancelled == <<"cancelled">>
NoReason == <<"null">>
NoTime == 0

VARIABLES premises, forms, qrcodes, visits, clock, premiseId, formData, calls,
          profiles, subs, runs, nav

vars == <<premises, forms, qrcodes, visits, clock, premiseId, formData, calls,
          profiles, subs, runs, nav>>

(* ------------------------- pure helper functions ----------------------- *)
RECURSIVE Trim(_)
Trim(s) ==
    IF s = <<>> THEN s
    ELSE IF Head(s) = " " THEN Trim(Tail(s))
    ELSE IF s[Len(s)] = " " THEN Trim(SubSeq(s, 1, Len(s) - 1))
    ELSE s

\* The ownership rule of every premise-scoped policy and of the routes:
\* auth.uid() = (SELECT owner_id FROM premises WHERE id = <premise_id>).
OwnsPremiseInverted(uid, pid) ==
    pid \in DOMAIN premises /\ premises[pid].owner_id # uid

OwnsPremise(uid, pid) ==
    pid \in DOMAIN premises /\ premises[pid].owner_id = uid

\* Row-level policies of the migration; uid is auth.uid(), NoSession for anon.
RlsSelectPremise(uid, pid) == OwnsPremise(uid, pid)

RlsSelectVisit(uid, row) == OwnsPremise(uid, row.premise_id)

RlsUpdateVisit(uid, row) == OwnsPremise(uid, row.premise_id)

RlsInsertVisit(uid, row) == uid # NoSession

RlsQrcode(uid, qr) == OwnsPremise(uid, qr.premise_id)

RlsForm(uid, form) == OwnsPremise(uid, form.premise_id)

(* ------------------------------- state --------------------------------- *)
IdleCall ==
    [pc |-> "idle", kind |-> "none", user |-> NoSession, visitId |-> 0,
     reason |-> NoReason, premise |-> NULL, seen |-> NULL, outcome |-> "none",
     began |-> "none"]

VisitRowWithoutCheckIn(pid, fid, qid, fd, st, at) ==
    [premise_id |-> pid, form_id |-> fid, qrcode_id |-> qid, visitor_id |-> NULL,
     form_data |-> fd, status |-> st, check_in_time |-> NoTime, check_out_time |-> NoTime,
     denial_reason |-> NoReason]

\* A row of visits as an insert of the intake code leaves it: the columns the
\* insert names, check_in_time (named by the submit route, DEFAULT now() for
\* the form page), and NULL in every column without a default.
VisitRow(pid, fid, qid, fd, st, at) ==
    [premise_id |-> pid, form_id |-> fid, qrcode_id |-> qid, visitor_id |-> NULL,
     form_data |-> fd, status |-> st, check_in_time |-> at, check_out_time |-> NoTime,
     denial_reason |-> NoReason]

\* useState<FormDataFromServer | null>(null) of the visitor form page.
NoFormData == [formId |-> NULL, premiseId |-> NULL, qrCodeId |-> NULL]

\* The request body of the submit route.  formData is a JSON object, a
\* function from the labels the visitor's form used to the values entered; a
\* key the object lacks reads as the JavaScript undefined, and a body without
\* formData carries MissingFormData.
Undefined == "undefined"
MissingFormData == [k \in {Undefined} |-> Undefined]

\* submissionData of the visitor form page: the values typed in, keyed by
\* the labels of the form's definition.
SubmissionData == ("Full Name" :> "n1")
FormDatas ==
    { ("Full Name" :> "n1"),
      ("phone" :> "t2"),
      ("Email" :> "e1") @@ ("Phone Number" :> "t1"),
      ("email" :> "e1") @@ ("phone" :> "t2") @@ ("name" :> "n1"),
      ("Email" :> "e1") @@ ("Phone" :> "") @@ ("ID Number" :> "i1") }

\* A row of profiles as the complete-profile page inserts it for a signed-up
\* user: no statement of the repository writes the email column.
ProfileRow(name, phone) ==
    [full_name |-> name, phone_number |-> phone, email |-> NULL]

SeedProfiles ==
    [u \in Users |-> IF u = "alice" THEN ProfileRow("n0", "t1")
                     ELSE ProfileRow("n9", "t9")]

\* What a call of the submit route holds between its awaits; `before` is
\* bookkeeping for the properties, read by no handler: the calls that had
\* their response when this one was received.
NoQrCodeData == [id |-> NULL, form_id |-> NULL, premise_id |-> NULL]

IdleSub ==
    [pc |-> "idle", user |-> NoSession, qrIdentifier |-> "",
     formData |-> MissingFormData, qrCodeData |-> NoQrCodeData, visitId |-> 0,
     visitorIdToLink |-> NULL, outcome |-> "none", before |-> {}]

\* A row of premises: the owner and the email, which the complete-profile
\* page takes from the signed-in user and the table declares UNIQUE.  The
\* email of a user is written as the user's name.
PremiseRow(owner, email) == [owner_id |-> owner, email |-> email]

\* A row of forms.  attempt is not a column: it records the principal whose
\* edit request last addressed the row.
FormRow(premise, owner, name, definition, active) ==
    [premise_id |-> premise, owner_id |-> owner, name |-> name,
     definition |-> definition, is_active |-> active, attempt |-> NULL]

\* A run of the complete-profile page's submit handler between its awaits.
IdleRun == [pc |-> "idle", user |-> NoSession, outcome |-> "none"]

\* The browser of the navigation chain, before any request.
NoNav == [path |-> "none", session |-> NoSession, stage |-> "none",
          hops |-> 0, seen |-> {}]

\* The store as deployed: alice owns premise p1 with one form and its QR code
\* qr1, bob owns premise p2 and has no form yet (qr2 resolves to nothing).
\* Visits already in the store are awaiting decision under the status the
\* dashboard lists (pending_approval).
SeedVisits ==
    {VisitRow("p1", "f1", "c1", SubmissionData, "pending_approval", 1)}

Init ==
    /\ premises = [p \in PremiseIds |->
                     PremiseRow(IF p = "p1" THEN "alice" ELSE "bob",
                                IF p = "p1" THEN "alice" ELSE "bob")]
    /\ forms = [f \in {"f1"} |-> FormRow("p1", "alice", "v0", "d0", TRUE)]
    /\ qrcodes = [q \in {"qr1"} |->
                    [id |-> "c1", form_id |-> "f1", premise_id |-> "p1",
                     is_active |-> TRUE]]
    /\ \E n \in 0..MaxVisits : visits \in [1..n -> SeedVisits]
    /\ clock = 1
    /\ premiseId = [u \in Users |-> NULL]
    /\ formData = NoFormData
    /\ calls = [c \in Calls |-> IdleCall]
    /\ profiles = SeedProfiles
    /\ subs = [s \in Subs |-> IdleSub]
    /\ runs = [r \in Runs |-> IdleRun]
    /\ nav = NoNav

\* The two statuses a visit awaits its decision under.
AwaitingDecision(status) == status \in {"pending_approval", "checked_in"}

\* Bookkeeping for the properties, read by no handler: the status the visit
\* was awaiting its decision under when a call that went on to its update was
\* made, if it was.
Began(vid) ==
    IF vid \in DOMAIN visits /\ AwaitingDecision(visits[vid].status)
    THEN visits[vid].status ELSE "other"

\* The response of a call; what the call held only to issue its update goes
\* with its stack frame.
Finish(c, out) ==
    calls' = [calls EXCEPT ![c].pc = "done", ![c].outcome = out, ![c].premise = NULL]

\* A request takes the first free slot, and a higher slot only beside requests
\* still in flight: a response is handed over before the next request is read.
Free(c) ==
    /\ calls[c].pc = "idle"
    /\ \A d \in Calls : d < c => calls[d].pc = "update"

(* ------------------- manage-visits dashboard (client) ------------------ *)
\* fetchUserDataAndVisits: the premise of the signed-in user, kept in the
\* component state premiseId.  .single() fails unless exactly one row matches.
OwnPremises(u) ==
    {p \in DOMAIN premises : premises[p].owner_id = u /\ RlsSelectPremise(u, p)}

FetchUserDataAndVisits(u) ==
    /\ Cardinality(OwnPremises(u)) = 1
    /\ premiseId' = [premiseId EXCEPT ![u] = CHOOSE p \in OwnPremises(u) : TRUE]
    /\ UNCHANGED <<runs, nav, profiles, subs, premises, forms, qrcodes, visits, clock, formData, calls>>

\* The pending list fetchUserDataAndVisits loads for user u, the only rows the
\* page renders Approve and Deny buttons on: the visits of the user's premise
\* with status pending_approval, under the select policy.
PendingVisits(u) ==
    IF Cardinality(OwnPremises(u)) # 1 THEN {}
    ELSE {v \in DOMAIN visits :
            /\ visits[v].premise_id = (CHOOSE p \in OwnPremises(u) : TRUE)
            /\ visits[v].status = "pending_approval"
            /\ RlsSelectVisit(u, visits[v])}

\* The rows an update issued from the dashboard changes: .eq('id', visitId)
\* .eq('premise_id', premiseId), under the update policy of the caller.
DashboardMatchesOwnerColumn(uid, pid, vid, v) ==
    /\ v = vid
    /\ visits[v].premise_id = uid
    /\ RlsUpdateVisit(uid, visits[v])

DashboardMatches(uid, pid, vid, v) ==
    /\ v = vid
    /\ visits[v].premise_id = pid
    /\ RlsUpdateVisit(uid, visits[v])

\* handleApprove up to its update: getSession and the premiseId guard.
HandleApproveBegin(c, u, sess, vid) ==
    /\ Free(c)
    /\ sess \in {u, NoSession}
    /\ LET call == [IdleCall EXCEPT !.kind = "approve", !.user = sess, !.visitId = vid,
                                    !.premise = premiseId[u], !.began = Began(vid)]
       IN  IF sess = NoSession \/ premiseId[u] = NULL
           THEN calls' = [calls EXCEPT ![c] =
                            [call EXCEPT !.pc = "done", !.outcome = "MissingInfo",
                                         !.premise = NULL, !.began = "none"]]
           ELSE calls' = [calls EXCEPT ![c] = [call EXCEPT !.pc = "update"]]
    /\ UNCHANGED <<runs, nav, profiles, subs, premises, forms, qrcodes, visits, clock, premiseId, formData>>

\* The update of handleApprove: no condition on the current status, and no
\* error when no row matches.
HandleApproveUpdate(c) ==
    /\ calls[c].pc = "update"
    /\ calls[c].kind = "approve"
    /\ visits' = [v \in DOMAIN visits |->
                    IF DashboardMatches(calls[c].user, calls[c].premise, calls[c].visitId, v)
                    THEN [visits[v] EXCEPT !.status = "approved"]
                    ELSE visits[v]]
    /\ Finish(c, "ok")
    /\ UNCHANGED <<runs, nav, profiles, subs, premises, forms, qrcodes, clock, premiseId, formData>>

\* reason.trim() === "" of handleDeny.
ReasonBlank(reason) == Trim(reason) = <<>>

\* handleDeny up to its update: the prompt, the blank-reason guard, getSession
\* and the premiseId guard.
HandleDenyBegin(c, u, sess, vid, reason) ==
    /\ Free(c)
    /\ sess \in {u, NoSession}
    /\ LET call == [IdleCall EXCEPT !.kind = "deny", !.user = sess, !.visitId = vid,
                                    !.reason = reason, !.premise = premiseId[u],
                                    !.began = Began(vid)]
           out == IF reason = PromptCancelled THEN "Cancelled"
                  ELSE IF ReasonBlank(reason) THEN "InvalidInput"
                  ELSE IF sess = NoSession \/ premiseId[u] = NULL THEN "MissingInfo"
                  ELSE "proceed"
       IN  IF out = "proceed"
           THEN calls' = [calls EXCEPT ![c] = [call EXCEPT !.pc = "update"]]
           ELSE calls' = [calls EXCEPT ![c] =
                            [call EXCEPT !.pc = "done", !.outcome = out,
                                         !.premise = NULL, !.began = "none"]]
    /\ UNCHANGED <<runs, nav, profiles, subs, premises, forms, qrcodes, visits, clock, premiseId, formData>>

HandleDenyUpdate(c) ==
    /\ calls[c].pc = "update"
    /\ calls[c].kind = "deny"
    /\ visits' = [v \in DOMAIN visits |->
                    IF DashboardMatches(calls[c].user, calls[c].premise, calls[c].visitId, v)
                    THEN [visits[v] EXCEPT !.status = "denied",
                                           !.denial_reason = calls[c].reason]
                    ELSE visits[v]]
    /\ Finish(c, "ok")
    /\ UNCHANGED <<runs, nav, profiles, subs, premises, forms, qrcodes, clock, premiseId, formData>>

(* --------------------- deny and checkout routes (server) --------------- *)
\* Steps 2 and 3 of both routes: select the visit with its premise embedded
\* (both under the select policies of the caller), then compare the owner.
OwnershipDecision(uid, vid) ==
    IF ~(vid \in DOMAIN visits /\ RlsSelectVisit(uid, visits[vid])) THEN "NotFound"
    ELSE IF ~RlsSelectPremise(uid, visits[vid].premise_id) THEN "Forbidden"
    ELSE IF ~OwnsPremise(uid, visits[vid].premise_id) THEN "Forbidden"
    ELSE "proceed"

\* Step 4 of the checkout route, on the status it read.
StatusGuardSwapped(status) ==
    IF status # "approved" THEN "NotApproved"
    ELSE IF status = "checked_out" THEN "AlreadyCheckedOut"
    ELSE "proceed"

StatusGuard(status) ==
    IF status = "checked_out" THEN "AlreadyCheckedOut"
    ELSE IF status # "approved" THEN "NotApproved"
    ELSE "proceed"

\* Steps 1 to 3 of the deny route: the session (read from the request's
\* cookies), the one read of the store and the check on what was read.
DenyRouteDecision(sess, vid) ==
    IF sess = NoSession THEN "Unauthorized"
    ELSE OwnershipDecision(sess, vid)

\* The deny route never reads the request body: the reason the caller sends
\* travels with the call and reaches no statement of the handler.
DenyRouteBegin(c, sess, vid, reason) ==
    /\ Free(c)
    /\ LET out == DenyRouteDecision(sess, vid)
           call == [IdleCall EXCEPT !.kind = "denyRoute", !.user = sess,
                                    !.visitId = vid, !.reason = reason,
                                    !.began = Began(vid)]
       IN  IF out = "proceed"
           THEN calls' = [calls EXCEPT ![c] = [call EXCEPT !.pc = "update"]]
           ELSE calls' = [calls EXCEPT ![c] =
                            [call EXCEPT !.pc = "done", !.outcome = out,
                                         !.began = "none"]]
    /\ UNCHANGED <<runs, nav, profiles, subs, premises, forms, qrcodes, visits, clock, premiseId, formData>>

\* Steps 1 to 4 of the checkout route; the status guard judges the status the
\* select returned.
CheckoutDecision(sess, vid) ==
    IF sess = NoSession THEN "Unauthorized"
    ELSE IF OwnershipDecision(sess, vid) # "proceed" THEN OwnershipDecision(sess, vid)
    ELSE StatusGuard(visits[vid].status)

CheckoutBegin(c, sess, vid) ==
    /\ Free(c)
    /\ LET out == CheckoutDecision(sess, vid)
           seen == IF sess # NoSession /\ OwnershipDecision(sess, vid) = "proceed"
                   THEN visits[vid].status ELSE NULL
           call == [IdleCall EXCEPT !.kind = "checkout", !.user = sess,
                                    !.visitId = vid, !.seen = seen,
                                    !.began = Began(vid)]
       IN  IF out = "proceed"
           THEN calls' = [calls EXCEPT ![c] = [call EXCEPT !.pc = "update"]]
           ELSE calls' = [calls EXCEPT ![c] =
                            [call EXCEPT !.pc = "done", !.outcome = out,
                                         !.began = "none"]]
    /\ UNCHANGED <<runs, nav, profiles, subs, premises, forms, qrcodes, visits, clock, premiseId, formData>>

\* The rows a route's update changes: .eq('id', visitId) under the update
\* policy of the caller; .select().single() fails when that is no row.
RouteMatches(uid, vid, v) == v = vid /\ RlsUpdateVisit(uid, visits[v])

DenyRouteUpdate(c) ==
    /\ calls[c].pc = "update"
    /\ calls[c].kind = "denyRoute"
    /\ visits' = [v \in DOMAIN visits |->
                    IF RouteMatches(calls[c].user, calls[c].visitId, v)
                    THEN [visits[v] EXCEPT !.status = "denied"]
                    ELSE visits[v]]
    /\ IF \E v \in DOMAIN visits : RouteMatches(calls[c].user, calls[c].visitId, v)
       THEN Finish(c, "ok") ELSE Finish(c, "StoreError")
    /\ UNCHANGED <<runs, nav, profiles, subs, premises, forms, qrcodes, clock, premiseId, formData>>

CheckoutUpdate(c) ==
    /\ calls[c].pc = "update"
    /\ calls[c].kind = "checkout"
    /\ clock <= MaxClock
    /\ visits' = [v \in DOMAIN visits |->
                    IF RouteMatches(calls[c].user, calls[c].visitId, v)
                    THEN [visits[v] EXCEPT !.status = "checked_out",
                                           !.check_out_time = clock]
                    ELSE visits[v]]
    /\ clock' = clock + 1
    /\ IF \E v \in DOMAIN visits : RouteMatches(calls[c].user, calls[c].visitId, v)
       THEN Finish(c, "ok") ELSE Finish(c, "StoreError")
    /\ UNCHANGED <<runs, nav, profiles, subs, premises, forms, qrcodes, premiseId, formData>>

\* The caller has its response; the slot serves the next request.
Return(c) ==
    /\ calls[c].pc = "done"
    /\ calls' = [calls EXCEPT ![c] = IdleCall]
    /\ UNCHANGED <<runs, nav, profiles, subs, premises, forms, qrcodes, visits, clock, premiseId, formData>>

(* ------------------------ visitor form page (client) ------------------- *)
\* fetchFormData: the QR code and its form, read under the policies of the
\* visitor's session; any failed check leaves formData as it was.
FetchFormData(uid, q) ==
    /\ q \in DOMAIN qrcodes
    /\ RlsQrcode(uid, qrcodes[q])
    /\ qrcodes[q].is_active
    /\ qrcodes[q].form_id \in DOMAIN forms
    /\ RlsForm(uid, forms[qrcodes[q].form_id])
    /\ forms[qrcodes[q].form_id].is_active
    /\ forms[qrcodes[q].form_id].premise_id = qrcodes[q].premise_id
    /\ formData' = [formId |-> qrcodes[q].form_id,
                    premiseId |-> forms[qrcodes[q].form_id].premise_id,
                    qrCodeId |-> qrcodes[q].id]
    /\ UNCHANGED <<runs, nav, profiles, subs, premises, forms, qrcodes, visits, clock, premiseId, calls>>

\* uuid_generate_v4(): a fresh id, here the first unused one.
NewVisitId == Len(visits) + 1

\* handleSubmit: insert(...).select().single(), so the new row must pass the
\* insert policy and be readable back under the select policy.
HandleSubmit(uid, agreedToTerms) ==
    /\ agreedToTerms
    /\ formData # NoFormData
    /\ NewVisitId \in VisitIds
    /\ LET row == VisitRow(formData.premiseId, formData.formId, formData.qrCodeId,
                           SubmissionData, "checked_in", clock)
       IN  /\ RlsInsertVisit(uid, row)
           /\ RlsSelectVisit(uid, row)
           /\ visits' = Append(visits, row)
    /\ UNCHANGED <<runs, nav, profiles, subs, premises, forms, qrcodes, clock, premiseId, formData, calls>>

(* ------------------------- submit route (server) ----------------------- *)
\* The route reads and writes the store through the client built from the
\* request's cookies, so under the policies of the visitor's session.
\*
\* key.toLowerCase().replace(/\s+/g, '_') on the labels the forms use.
NormalizeKey(key) ==
    CASE key = "Full Name" -> "full_name"
      [] key = "Email" -> "email"
      [] key = "Phone Number" -> "phone_number"
      [] key = "Phone" -> "phone"
      [] key = "ID Number" -> "id_number"
      [] OTHER -> key

\* normalizedFormData: every value under its normalised key.
NormalizedFormData(fd) ==
    [n \in {NormalizeKey(k) : k \in DOMAIN fd} |->
        fd[CHOOSE k \in DOMAIN fd : NormalizeKey(k) = n]]

Get(obj, key) == IF key \in DOMAIN obj THEN obj[key] ELSE Undefined

\* JavaScript truthiness of a form value: undefined and "" are falsy.
Truthy(v) == v \notin {Undefined, ""}

\* a || b
OrElse(a, b) == IF Truthy(a) THEN a ELSE b

VisitorEmail(fd) == Get(NormalizedFormData(fd), "email")

VisitorPhone(fd) ==
    OrElse(Get(NormalizedFormData(fd), "phone_number"),
           Get(NormalizedFormData(fd), "phone"))

VisitorFullName(fd) ==
    OrElse(Get(NormalizedFormData(fd), "full_name"),
           Get(NormalizedFormData(fd), "name"))

VisitorIdNumber(fd) == Get(NormalizedFormData(fd), "id_number")

\* The status code each response of the route carries.
HttpStatus(outcome) ==
    CASE outcome = "Visit recorded successfully" -> 201
      [] outcome \in {"Missing qrIdentifier or formData",
                      "This QR code is no longer active.",
                      "This form is no longer active."} -> 400
      [] outcome \in {"Invalid or expired QR code.",
                      "Form associated with this QR code not found."} -> 404
      [] outcome \in {"Form configuration error.", "Failed to submit form.",
                      "Internal Server Error"} -> 500

\* A request takes the first free slot of the route.
FreeSub(s) ==
    /\ subs[s].pc = "idle"
    /\ \A d \in Subs : d < s => subs[d].pc # "idle"

Respond(s, sub, out) ==
    subs' = [subs EXCEPT ![s] = [sub EXCEPT !.pc = "done", !.outcome = out]]

\* The body check and step 1: the QR code by its identifier, .single().
QrDecisionFormFirst(sess, qrIdentifier, fd) ==
    IF qrIdentifier = "" \/ fd = MissingFormData
    THEN "Missing qrIdentifier or formData"
    ELSE IF ~(qrIdentifier \in DOMAIN qrcodes /\ RlsQrcode(sess, qrcodes[qrIdentifier]))
    THEN "Invalid or expired QR code."
    ELSE IF /\ qrcodes[qrIdentifier].form_id \in DOMAIN forms
            /\ ~forms[qrcodes[qrIdentifier].form_id].is_active
    THEN "This form is no longer active."
    ELSE IF ~qrcodes[qrIdentifier].is_active THEN "This QR code is no longer active."
    ELSE "proceed"

QrDecision(sess, qrIdentifier, fd) ==
    IF qrIdentifier = "" \/ fd = MissingFormData
    THEN "Missing qrIdentifier or formData"
    ELSE IF ~(qrIdentifier \in DOMAIN qrcodes /\ RlsQrcode(sess, qrcodes[qrIdentifier]))
    THEN "Invalid or expired QR code."
    ELSE IF ~qrcodes[qrIdentifier].is_active THEN "This QR code is no longer active."
    ELSE "proceed"

SubmitBegin(s, sess, qrIdentifier, fd) ==
    /\ FreeSub(s)
    /\ LET sub == [IdleSub EXCEPT !.user = sess, !.qrIdentifier = qrIdentifier,
                                  !.formData = fd,
                                  !.before = {d \in Subs : subs[d].pc = "done"}]
           out == QrDecision(sess, qrIdentifier, fd)
       IN  IF out = "proceed"
           THEN subs' = [subs EXCEPT ![s] =
                           [sub EXCEPT !.pc = "form",
                                       !.qrCodeData =
                                          [id |-> qrcodes[qrIdentifier].id,
                                           form_id |-> qrcodes[qrIdentifier].form_id,
                                           premise_id |-> qrcodes[qrIdentifier].premise_id]]]
           ELSE Respond(s, sub, out)
    /\ UNCHANGED <<runs, nav, premises, forms, qrcodes, visits, clock, premiseId, formData,
                   calls, profiles>>

\* Step 2 on the form the QR code names, .single(), and the premise check.
FormDecisionSkipsPremise(sess, qrCodeData) ==
    IF ~( /\ qrCodeData.form_id \in DOMAIN forms
          /\ RlsForm(sess, forms[qrCodeData.form_id]) )
    THEN "Form associated with this QR code not found."
    ELSE IF ~forms[qrCodeData.form_id].is_active THEN "This form is no longer active."
    ELSE "proceed"

FormDecisionPremiseAsInactive(sess, qrCodeData) ==
    IF ~( /\ qrCodeData.form_id \in DOMAIN forms
          /\ RlsForm(sess, forms[qrCodeData.form_id]) )
    THEN "Form associated with this QR code not found."
    ELSE IF ~forms[qrCodeData.form_id].is_active THEN "This form is no longer active."
    ELSE IF forms[qrCodeData.form_id].premise_id # qrCodeData.premise_id
    THEN "This form is no longer active."
    ELSE "proceed"

FormDecision(sess, qrCodeData) ==
    IF ~( /\ qrCodeData.form_id \in DOMAIN forms
          /\ RlsForm(sess, forms[qrCodeData.form_id]) )
    THEN "Form associated with this QR code not found."
    ELSE IF ~forms[qrCodeData.form_id].is_active THEN "This form is no longer active."
    ELSE IF forms[qrCodeData.form_id].premise_id # qrCodeData.premise_id
    THEN "Form configuration error."
    ELSE "proceed"

SubmitFetchForm(s) ==
    /\ subs[s].pc = "form"
    /\ LET out == FormDecision(subs[s].user, subs[s].qrCodeData)
       IN  IF out = "proceed"
           THEN subs' = [subs EXCEPT ![s].pc = "insert"]
           ELSE Respond(s, subs[s], out)
    /\ UNCHANGED <<runs, nav, premises, forms, qrcodes, visits, clock, premiseId, formData,
                   calls, profiles>>

\* What the route awaits next once `after` of its four identity steps (find
\* by email, find by phone, create, link) are behind it; "done" is the 201.
NextPcPhoneAlways(fd, link, after) ==
    IF after < 1 /\ Truthy(VisitorEmail(fd)) THEN "findByEmail"
    ELSE IF after < 2 /\ Truthy(VisitorPhone(fd)) THEN "findByPhone"
    ELSE IF /\ after < 3
            /\ link = NULL
            /\ \/ Truthy(VisitorFullName(fd))
               \/ Truthy(VisitorEmail(fd))
               \/ Truthy(VisitorIdNumber(fd))
    THEN "createVisitor"
    ELSE IF after < 4 /\ link # NULL THEN "linkVisit"
    ELSE "done"

NextPc(fd, link, after) ==
    IF after < 1 /\ Truthy(VisitorEmail(fd)) THEN "findByEmail"
    ELSE IF after < 2 /\ link = NULL /\ Truthy(VisitorPhone(fd)) THEN "findByPhone"
    ELSE IF /\ after < 3
            /\ link = NULL
            /\ \/ Truthy(VisitorFullName(fd))
               \/ Truthy(VisitorEmail(fd))
               \/ Truthy(VisitorIdNumber(fd))
    THEN "createVisitor"
    ELSE IF after < 4 /\ link # NULL THEN "linkVisit"
    ELSE "done"

Proceed(s, sub, link, after) ==
    LET pc == NextPc(sub.formData, link, after)
    IN  subs' = [subs EXCEPT ![s] =
                   [sub EXCEPT !.pc = pc, !.visitorIdToLink = link,
                               !.outcome = IF pc = "done"
                                           THEN "Visit recorded successfully"
                                           ELSE "none"]]

\* Step 3: insert(...).select().single() of the visit; the row must pass the
\* insert policy and be readable back.
SubmitInsertVisit(s) ==
    /\ subs[s].pc = "insert"
    /\ LET row == VisitRow(subs[s].qrCodeData.premise_id, subs[s].qrCodeData.form_id,
                           subs[s].qrCodeData.id, subs[s].formData,
                           "checked_in", clock)
       IN  IF RlsInsertVisit(subs[s].user, row) /\ RlsSelectVisit(subs[s].user, row)
           THEN /\ visits' = Append(visits, row)
                /\ Proceed(s, [subs[s] EXCEPT !.visitId = NewVisitId], NULL, 0)
           ELSE /\ visits' = visits
                /\ Respond(s, subs[s], "Failed to submit form.")
    /\ UNCHANGED <<runs, nav, premises, forms, qrcodes, clock, premiseId, formData, calls,
                   profiles>>

\* .maybeSingle(): the row when exactly one matches, null when none does, an
\* error (logged, and the visitor counts as not found) when several do.
MaybeSingle(matches) ==
    IF Cardinality(matches) = 1 THEN CHOOSE p \in matches : TRUE ELSE NULL

SubmitFindByEmail(s) ==
    /\ subs[s].pc = "findByEmail"
    /\ Proceed(s, subs[s],
               MaybeSingle({p \in DOMAIN profiles :
                              profiles[p].email = VisitorEmail(subs[s].formData)}),
               1)
    /\ UNCHANGED <<runs, nav, premises, forms, qrcodes, visits, clock, premiseId, formData,
                   calls, profiles>>

SubmitFindByPhone(s) ==
    /\ subs[s].pc = "findByPhone"
    /\ Proceed(s, subs[s],
               MaybeSingle({p \in DOMAIN profiles :
                              profiles[p].phone_number = VisitorPhone(subs[s].formData)}),
               2)
    /\ UNCHANGED <<runs, nav, premises, forms, qrcodes, visits, clock, premiseId, formData,
                   calls, profiles>>

\* The new-visitor branch.  The row it would insert takes its id from
\* `user.id`, and the handler declares no `user`: evaluating the row throws a
\* ReferenceError before any request is sent, the catch at the end of the
\* handler answers 500, and the visit inserted in step 3 stays as it is.
SubmitCreateVisitorAsGuest(s) ==
    /\ subs[s].pc = "createVisitor"
    /\ profiles' = profiles @@
                     (ToString(s) :> ProfileRow(VisitorFullName(subs[s].formData),
                                                VisitorPhone(subs[s].formData)))
    /\ Proceed(s, subs[s], ToString(s), 3)
    /\ UNCHANGED <<runs, nav, premises, forms, qrcodes, visits, clock, premiseId, formData,
                   calls>>

SubmitCreateVisitor(s) ==
    /\ subs[s].pc = "createVisitor"
    /\ Respond(s, subs[s], "Internal Server Error")
    /\ UNCHANGED <<runs, nav, premises, forms, qrcodes, visits, clock, premiseId, formData,
                   calls, profiles>>

\* The linking written as a write-back of the row the insert returned.
SubmitLinkVisitWritesRowBack(s) ==
    /\ subs[s].pc = "linkVisit"
    /\ visits' = [v \in DOMAIN visits |->
                    IF v = subs[s].visitId /\ RlsUpdateVisit(subs[s].user, visits[v])
                    THEN [visits[v] EXCEPT !.visitor_id = subs[s].visitorIdToLink,
                                           !.status = "checked_in"]
                    ELSE visits[v]]
    /\ Proceed(s, subs[s], subs[s].visitorIdToLink, 4)
    /\ UNCHANGED <<runs, nav, premises, forms, qrcodes, clock, premiseId, formData, calls,
                   profiles>>

\* The linking update, .eq('id', visitData.id) under the update policy of
\* the session; its error is logged and the 201 follows either way.
SubmitLinkVisit(s) ==
    /\ subs[s].pc = "linkVisit"
    /\ visits' = [v \in DOMAIN visits |->
                    IF v = subs[s].visitId /\ RlsUpdateVisit(subs[s].user, visits[v])
                    THEN [visits[v] EXCEPT !.visitor_id = subs[s].visitorIdToLink]
                    ELSE visits[v]]
    /\ Proceed(s, subs[s], subs[s].visitorIdToLink, 4)
    /\ UNCHANGED <<runs, nav, premises, forms, qrcodes, clock, premiseId, formData, calls,
                   profiles>>

\* Intake on its own: the store holds whatever rows its schema admits (no
\* handler of the repository writes qrcodes, so the QR code may be inactive,
\* or name a premise other than its form's), every owner has the profile the
\* complete-profile page made, and no visit exists yet.
InitIntake ==
    /\ \E o \in Users :
         premises = [p \in PremiseIds |->
                       PremiseRow(IF p = "p1" THEN "alice" ELSE o,
                                  IF p = "p1" THEN "alice" ELSE "bob")]
    /\ \E a \in BOOLEAN :
         forms = [f \in {"f1"} |-> FormRow("p1", "alice", "v0", "d0", a)]
    /\ \E a \in BOOLEAN, p \in PremiseIds :
         qrcodes = [q \in {"qr1"} |->
                      [id |-> "c1", form_id |-> "f1", premise_id |-> p,
                       is_active |-> a]]
    /\ visits = <<>>
    /\ clock \in 1..MaxClock
    /\ premiseId = [u \in Users |-> NULL]
    /\ formData = NoFormData
    /\ calls = [c \in Calls |-> IdleCall]
    /\ profiles = SeedProfiles
    /\ subs = [s \in Subs |-> IdleSub]
    /\ runs = [r \in Runs |-> IdleRun]
    /\ nav = NoNav

NextIntake ==
    \/ \E s \in Subs, sess \in Principals, q \in QrIdentifiers \cup {""},
          fd \in FormDatas \cup {MissingFormData} :
         SubmitBegin(s, sess, q, fd)
    \/ \E s \in Subs : SubmitFetchForm(s)
    \/ \E s \in Subs : SubmitInsertVisit(s)
    \/ \E s \in Subs : SubmitFindByEmail(s)
    \/ \E s \in Subs : SubmitFindByPhone(s)
    \/ \E s \in Subs : SubmitCreateVisitor(s)
    \/ \E s \in Subs : SubmitLinkVisit(s)
    \/ \E uid \in Principals, q \in QrIdentifiers : FetchFormData(uid, q)
    \/ \E uid \in Principals, agreed \in BOOLEAN : HandleSubmit(uid, agreed)

SpecIntake == InitIntake /\ [][NextIntake]_vars

\* Intake against a store whose profiles carry an email: the dashboard reads
\* profiles.email, which the sign-up outside this repository fills; here the
\* profile of bob has one.  Form and QR code are active and agree.
InitIdentity ==
    /\ premises = [p \in PremiseIds |->
                     PremiseRow(IF p = "p1" THEN "alice" ELSE "bob",
                                IF p = "p1" THEN "alice" ELSE "bob")]
    /\ forms = [f \in {"f1"} |-> FormRow("p1", "alice", "v0", "d0", TRUE)]
    /\ qrcodes = [q \in {"qr1"} |->
                    [id |-> "c1", form_id |-> "f1", premise_id |-> "p1",
                     is_active |-> TRUE]]
    /\ visits = <<>>
    /\ clock = 1
    /\ premiseId = [u \in Users |-> NULL]
    /\ formData = NoFormData
    /\ calls = [c \in Calls |-> IdleCall]
    /\ profiles = [SeedProfiles EXCEPT !["bob"].email = "e1"]
    /\ subs = [s \in Subs |-> IdleSub]
    /\ runs = [r \in Runs |-> IdleRun]
    /\ nav = NoNav

SpecIdentity == InitIdentity /\ [][NextIntake]_vars

(* ------------------ deactivation of QR codes and forms ------------------ *)
\* The owner switches a QR code off: an update of is_active under
\* manage_own_premise_qrcodes.  The pages of the repository only read the
\* column.
DeactivateQrcode(uid, q) ==
    /\ q \in DOMAIN qrcodes
    /\ RlsQrcode(uid, qrcodes[q])
    /\ qrcodes[q].is_active
    /\ qrcodes' = [qrcodes EXCEPT ![q].is_active = FALSE]
    /\ UNCHANGED <<premises, forms, visits, clock, premiseId, formData,
                   calls, profiles, subs, runs, nav>>

\* The owner switches a form off, under manage_own_premise_forms.
DeactivateForm(uid, f) ==
    /\ f \in DOMAIN forms
    /\ RlsForm(uid, forms[f])
    /\ forms[f].is_active
    /\ forms' = [forms EXCEPT ![f].is_active = FALSE]
    /\ UNCHANGED <<premises, qrcodes, visits, clock, premiseId, formData,
                   calls, profiles, subs, runs, nav>>

\* The intake paths against a store that starts consistent and active.
InitDeactivation ==
    /\ InitIntake
    /\ premises["p2"].owner_id = "bob"
    /\ forms["f1"].is_active
    /\ qrcodes["qr1"].is_active
    /\ qrcodes["qr1"].premise_id = "p1"
    /\ clock = 1

NextDeactivation ==
    \/ NextIntake
    \/ \E uid \in Users, q \in QrIdentifiers : DeactivateQrcode(uid, q)
    \/ \E uid \in Users, f \in FormIds : DeactivateForm(uid, f)

SpecDeactivation == InitDeactivation /\ [][NextDeactivation]_vars

(* ------------------- complete-profile page: handleSubmit ---------------- *)

\* user.email of the signed-in user: one address per account.
UserEmail(u) == u

\* The unused premise id the insert takes.
NewPremiseId == CHOOSE p \in PremiseIds \ DOMAIN premises : TRUE

\* with check: auth.uid() = owner_id, for the row being inserted.
RlsInsertPremise(uid, row) == uid = row.owner_id

\* UNIQUE on premises.email, without the constraint.
EmailTakenNever(email) == FALSE

\* email TEXT UNIQUE NOT NULL: some row already holds this email.
EmailTaken(email) == \E p \in DOMAIN premises : premises[p].email = email

FinishRun(r, outcome) ==
    runs' = [runs EXCEPT ![r].pc = "done", ![r].outcome = outcome]

\* getUser(): without a user the handler reports and returns.
CompleteProfileBegin(r, sess) ==
    /\ runs[r].pc = "idle"
    /\ IF sess = NoSession
       THEN runs' = [runs EXCEPT ![r] = [pc |-> "done", user |-> sess,
                        outcome |-> "User not found. Please log in again."]]
       ELSE runs' = [runs EXCEPT ![r] = [pc |-> "checkProfile", user |-> sess,
                        outcome |-> "none"]]
    /\ UNCHANGED <<premises, forms, qrcodes, visits, clock, premiseId,
                   formData, calls, profiles, subs, nav>>

\* select('id').eq('id', user.id).maybeSingle(): existingProfile.
CompleteProfileCheckProfile(r) ==
    /\ runs[r].pc = "checkProfile"
    /\ runs' = [runs EXCEPT ![r].pc =
                  IF runs[r].user \in DOMAIN profiles
                  THEN "insertPremise" ELSE "insertProfile"]
    /\ UNCHANGED <<premises, forms, qrcodes, visits, clock, premiseId,
                   formData, calls, profiles, subs, nav>>

\* insert into profiles; id is the key, so a row inserted meanwhile by
\* another run makes this insert fail and the handler return.
CompleteProfileInsertProfile(r) ==
    /\ runs[r].pc = "insertProfile"
    /\ IF runs[r].user \in DOMAIN profiles
       THEN /\ FinishRun(r, "Error creating profile")
            /\ UNCHANGED profiles
       ELSE /\ profiles' = profiles @@
                             (runs[r].user :> SeedProfiles[runs[r].user])
            /\ runs' = [runs EXCEPT ![r].pc = "insertPremise"]
    /\ UNCHANGED <<premises, forms, qrcodes, visits, clock, premiseId,
                   formData, calls, subs, nav>>

\* insert into premises with email: user.email and owner_id: user.id.  No
\* lookup of an existing premise precedes it.
CompleteProfileInsertPremise(r) ==
    /\ runs[r].pc = "insertPremise"
    /\ LET row == PremiseRow(runs[r].user, UserEmail(runs[r].user))
       IN  IF EmailTaken(row.email) \/ ~RlsInsertPremise(runs[r].user, row)
           THEN /\ FinishRun(r, "Error creating premise")
                /\ UNCHANGED premises
           ELSE /\ PremiseIds \ DOMAIN premises # {}
                /\ premises' = premises @@ (NewPremiseId :> row)
                /\ FinishRun(r, "ok")
    /\ UNCHANGED <<forms, qrcodes, visits, clock, premiseId,
                   formData, calls, profiles, subs, nav>>

\* The page is left or submitted again: the run's slot is free.
CompleteProfileReturn(r) ==
    /\ runs[r].pc = "done"
    /\ runs' = [runs EXCEPT ![r] = IdleRun]
    /\ UNCHANGED <<premises, forms, qrcodes, visits, clock, premiseId,
                   formData, calls, profiles, subs, nav>>

(* ----------------------- new-form and edit-form pages ------------------- *)

\* select('id').eq('owner_id', user).single(): the premise the page keeps
\* in premiseId after loading; NULL when the select yields no single row.
LoadedPremise(u) ==
    LET own == {p \in DOMAIN premises : premises[p].owner_id = u}
    IN  IF Cardinality(own) = 1 THEN CHOOSE p \in own : TRUE ELSE NULL

NewFormId == CHOOSE f \in FormIds \ DOMAIN forms : TRUE

\* NewFormPage.handleSubmit: insert with premise_id: premiseId and
\* owner_id: user.id, under the with-check of manage_own_premise_forms.
NewFormSubmit(pageUser, sess, name, definition) ==
    /\ pageUser \in Users
    /\ LoadedPremise(pageUser) # NULL
    /\ LET row == FormRow(LoadedPremise(pageUser), pageUser, name,
                          definition, TRUE)
       IN  IF RlsForm(sess, row) /\ FormIds \ DOMAIN forms # {}
           THEN forms' = forms @@ (NewFormId :> row)
           ELSE UNCHANGED forms
    /\ UNCHANGED <<premises, qrcodes, visits, clock, premiseId,
                   formData, calls, profiles, subs, runs, nav>>

\* The update's filter, matching every row.
EditMatchesAnyRow(pageUser, sess, form) == TRUE

\* .eq('owner_id', user.id) under the using-clause of the forms policy.
EditMatches(pageUser, sess, form) ==
    /\ form.owner_id = pageUser
    /\ RlsForm(sess, form)

\* EditFormPage.handleSubmit: update name and definition of formId where
\* owner_id = user.id.  No error is raised when no row matches.
EditFormSubmit(pageUser, sess, f, name, definition) ==
    /\ pageUser \in Users
    /\ LoadedPremise(pageUser) # NULL
    /\ f \in DOMAIN forms
    /\ forms' = [forms EXCEPT
                   ![f] = IF EditMatches(pageUser, sess, forms[f])
                          THEN [@ EXCEPT !.name = name,
                                         !.definition = definition,
                                         !.attempt = sess]
                          ELSE [@ EXCEPT !.attempt = sess]]
    /\ UNCHANGED <<premises, qrcodes, visits, clock, premiseId,
                   formData, calls, profiles, subs, runs, nav>>

\* Fresh accounts: nobody has a profile or a premise yet.
InitOnboarding ==
    /\ premises = [p \in {} |-> PremiseRow("alice", "alice")]
    /\ forms = [f \in {} |-> FormRow("p1", "alice", "v0", "d0", TRUE)]
    /\ qrcodes = [q \in {} |-> NULL]
    /\ visits = <<>>
    /\ clock = 1
    /\ premiseId = [u \in Users |-> NULL]
    /\ formData = NoFormData
    /\ calls = [c \in Calls |-> IdleCall]
    /\ profiles = [u \in {} |-> SeedProfiles["alice"]]
    /\ subs = [s \in Subs |-> IdleSub]
    /\ runs = [r \in Runs |-> IdleRun]
    /\ nav = NoNav

NextOnboarding ==
    \/ \E r \in Runs, sess \in Principals : CompleteProfileBegin(r, sess)
    \/ \E r \in Runs : CompleteProfileCheckProfile(r)
    \/ \E r \in Runs : CompleteProfileInsertProfile(r)
    \/ \E r \in Runs : CompleteProfileInsertPremise(r)
    \/ \E r \in Runs : CompleteProfileReturn(r)

SpecOnboarding == InitOnboarding /\ [][NextOnboarding]_vars

\* Two accounts that completed their profiles, no form created yet.
InitForms ==
    /\ premises = [p \in PremiseIds |->
                     PremiseRow(IF p = "p1" THEN "alice" ELSE "bob",
                                IF p = "p1" THEN "alice" ELSE "bob")]
    /\ forms = [f \in {} |-> FormRow("p1", "alice", "v0", "d0", TRUE)]
    /\ qrcodes = [q \in {} |-> NULL]
    /\ visits = <<>>
    /\ clock = 1
    /\ premiseId = [u \in Users |-> NULL]
    /\ formData = NoFormData
    /\ calls = [c \in Calls |-> IdleCall]
    /\ profiles = SeedProfiles
    /\ subs = [s \in Subs |-> IdleSub]
    /\ runs = [r \in Runs |-> IdleRun]
    /\ nav = NoNav

NextForms ==
    \/ \E u \in Users, sess \in Principals, n \in FormNames,
          d \in FormDefinitions : NewFormSubmit(u, sess, n, d)
    \/ \E u \in Users, sess \in Principals, f \in FormIds, n \in FormNames,
          d \in FormDefinitions : EditFormSubmit(u, sess, f, n, d)

SpecForms == InitForms /\ [][NextForms]_vars

(* ------------- navigation: middleware and redirecting pages ------------- *)
StartPaths ==
    {"/", "/login", "/auth/register", "/auth/complete-profile", "/dashboard",
     "/dashboard/manage-visits"}

\* pathname.startsWith('/dashboard')
UnderDashboard(path) == path \in {"/dashboard", "/dashboard/manage-visits"}

\* profiles .eq('id', user.id): the row, if there is one.
HasProfile(u) == u \in DOMAIN profiles

\* premises .eq('owner_id', user.id).maybeSingle(): a row only when exactly
\* one matches under the select policy.
HasPremise(u) == Cardinality(OwnPremises(u)) = 1

\* The complete-profile page redirecting whoever is signed in.
CompleteProfileFetchUserAlways(sess) ==
    IF sess = NoSession THEN "/login" ELSE "/dashboard"

\* middleware: the redirect it answers with, or "next" when the request goes
\* on to the page.
Middleware(path, sess) ==
    IF sess = NoSession /\ (UnderDashboard(path) \/ path = "/auth/complete-profile")
    THEN "/login"
    ELSE IF sess # NoSession /\ path \in {"/login", "/auth/register"}
    THEN "/dashboard/manage-visits"
    ELSE IF sess # NoSession /\ (UnderDashboard(path) \/ path = "/")
    THEN IF ~HasProfile(sess) THEN "/auth/complete-profile"
         ELSE IF ~HasPremise(sess) THEN "/auth/complete-profile"
         ELSE IF path = "/dashboard" THEN "/dashboard/manage-visits"
         ELSE "next"
    ELSE "next"

\* DashboardPage.checkUserAndRedirect: always ends in a router.push.
DashboardCheckUserAndRedirect(sess) ==
    IF sess = NoSession THEN "/login"
    ELSE IF ~HasProfile(sess) THEN "/auth/complete-profile"
    ELSE IF ~HasPremise(sess) THEN "/auth/complete-profile"
    ELSE "/dashboard/manage-visits"

\* CompleteProfilePage.fetchUser: the router.push it issues, or "stay".
CompleteProfileFetchUser(sess) ==
    IF sess = NoSession THEN "/login"
    ELSE IF HasProfile(sess) /\ HasPremise(sess) THEN "/dashboard"
    ELSE "stay"

\* The effect of the page rendered at path.
PageEffect(path, sess) ==
    IF path = "/dashboard" THEN DashboardCheckUserAndRedirect(sess)
    ELSE IF path = "/auth/complete-profile" THEN CompleteProfileFetchUser(sess)
    ELSE "stay"

\* A redirect: the browser requests the target.
Redirect(target) ==
    nav' = [nav EXCEPT !.path = target, !.stage = "request",
                       !.hops = nav.hops + 1,
                       !.seen = nav.seen \cup {nav.path}]

\* The browser requests a path: a chain starts.
Navigate(sess, path) ==
    /\ nav.stage \in {"none", "settled"}
    /\ nav' = [path |-> path, session |-> sess, stage |-> "request",
               hops |-> 0, seen |-> {}]
    /\ UNCHANGED <<premises, forms, qrcodes, visits, clock, premiseId,
                   formData, calls, profiles, subs, runs>>

\* The middleware answers the request.
MiddlewareStep ==
    /\ nav.stage = "request"
    /\ nav.hops < MaxHops
    /\ IF Middleware(nav.path, nav.session) = "next"
       THEN nav' = [nav EXCEPT !.stage = "page"]
       ELSE Redirect(Middleware(nav.path, nav.session))
    /\ UNCHANGED <<premises, forms, qrcodes, visits, clock, premiseId,
                   formData, calls, profiles, subs, runs>>

\* The page's effect runs after it rendered.
PageStep ==
    /\ nav.stage = "page"
    /\ nav.hops < MaxHops
    /\ IF PageEffect(nav.path, nav.session) = "stay"
       THEN nav' = [nav EXCEPT !.stage = "settled"]
       ELSE Redirect(PageEffect(nav.path, nav.session))
    /\ UNCHANGED <<premises, forms, qrcodes, visits, clock, premiseId,
                   formData, calls, profiles, subs, runs>>

\* Every combination of profile and premise, for alice; bob has neither.
InitNavigation ==
    /\ \E hasPremise \in BOOLEAN :
         premises = [p \in (IF hasPremise THEN {"p1"} ELSE {}) |->
                       PremiseRow("alice", "alice")]
    /\ \E hasProfile \in BOOLEAN :
         profiles = [u \in (IF hasProfile THEN {"alice"} ELSE {}) |->
                       SeedProfiles[u]]
    /\ forms = [f \in {} |-> FormRow("p1", "alice", "v0", "d0", TRUE)]
    /\ qrcodes = [q \in {} |-> NULL]
    /\ visits = <<>>
    /\ clock = 1
    /\ premiseId = [u \in Users |-> NULL]
    /\ formData = NoFormData
    /\ calls = [c \in Calls |-> IdleCall]
    /\ subs = [s \in Subs |-> IdleSub]
    /\ runs = [r \in Runs |-> IdleRun]
    /\ nav = NoNav

NextNavigation ==
    \/ \E sess \in Principals, path \in StartPaths : Navigate(sess, path)
    \/ MiddlewareStep
    \/ PageStep

\* Next.js runs the middleware for every request and the effect of every
\* page it renders.
SpecNavigation ==
    /\ InitNavigation
    /\ [][NextNavigation]_vars
    /\ WF_vars(MiddlewareStep)
    /\ WF_vars(PageStep)

Next ==
    \/ \E u \in Users : FetchUserDataAndVisits(u)
    \/ \E c \in Calls, u \in Users, sess \in Principals, vid \in VisitIds :
         HandleApproveBegin(c, u, sess, vid)
    \/ \E c \in Calls : HandleApproveUpdate(c)
    \/ \E c \in Calls, u \in Users, sess \in Principals, vid \in VisitIds,
          reason \in Reasons \cup {PromptCancelled} :
         HandleDenyBegin(c, u, sess, vid, reason)
    \/ \E c \in Calls : HandleDenyUpdate(c)
    \/ \E c \in Calls, sess \in Principals, vid \in VisitIds :
         CheckoutBegin(c, sess, vid)
    \/ \E c \in Calls, sess \in Principals, vid \in VisitIds, reason \in Reasons :
         DenyRouteBegin(c, sess, vid, reason)
    \/ \E c \in Calls : DenyRouteUpdate(c)
    \/ \E c \in Calls : CheckoutUpdate(c)
    \/ \E c \in Calls : Return(c)
    \/ \E uid \in Principals, q \in QrIdentifiers : FetchFormData(uid, q)
    \/ \E uid \in Principals, agreed \in BOOLEAN : HandleSubmit(uid, agreed)

Spec == Init /\ [][Next]_vars

\* The owner's decisions together with the intake of the submit route, on
\* the store in which a submitted email names an existing profile: one
\* decision and one submission in flight at a time, each repeated at will.
NextLifecycleAndIntake ==
    \/ \E sess \in Principals, q \in QrIdentifiers \cup {""},
          fd \in FormDatas \cup {MissingFormData} : SubmitBegin(1, sess, q, fd)
    \/ SubmitFetchForm(1)
    \/ SubmitInsertVisit(1)
    \/ SubmitFindByEmail(1)
    \/ SubmitFindByPhone(1)
    \/ SubmitCreateVisitor(1)
    \/ SubmitLinkVisit(1)
    \/ \E u \in Users : FetchUserDataAndVisits(u)
    \/ \E u \in Users, vid \in VisitIds : HandleApproveBegin(1, u, u, vid)
    \/ HandleApproveUpdate(1)
    \/ \E u \in Users, vid \in VisitIds, reason \in Reasons :
         HandleDenyBegin(1, u, u, vid, reason)
    \/ HandleDenyUpdate(1)
    \/ \E u \in Users, vid \in VisitIds : CheckoutBegin(1, u, vid)
    \/ CheckoutUpdate(1)
    \/ \E u \in Users, vid \in VisitIds, reason \in Reasons :
         DenyRouteBegin(1, u, vid, reason)
    \/ DenyRouteUpdate(1)
    \/ Return(1)

SpecLifecycleAndIntake == InitIdentity /\ [][NextLifecycleAndIntake]_vars

(* ---------------------------- properties ------------------------------- *)
OwnerOfVisit(v) == premises[visits[v].premise_id].owner_id

\* A call by the owner of the premise of an existing visit.
ByOwner(c) ==
    /\ calls[c].visitId \in DOMAIN visits
    /\ calls[c].user = OwnerOfVisit(calls[c].visitId)

DecisionKinds == {"approve", "deny", "denyRoute"}

\* The step in which call c gets its response.
Completes(c) == calls[c].pc # "done" /\ calls'[c].pc = "done"

\* C1: of two approve/deny calls by the premise owner made while the visit is
\* in pending_approval (so that the second is made before the first has
\* written), exactly one succeeds and the other fails with
\* InvalidStateTransition; they never both report success.
C1_ExactlyOneDecisionSucceeds ==
    \A c, d \in Calls :
        ( /\ c # d
          /\ calls[c].pc = "done" /\ calls[d].pc = "done"
          /\ calls[c].kind \in DecisionKinds /\ calls[d].kind \in DecisionKinds
          /\ calls[c].visitId = calls[d].visitId
          /\ ByOwner(c) /\ ByOwner(d)
          /\ calls[c].began = "pending_approval"
          /\ calls[d].began = "pending_approval" )
        => \/ calls[c].outcome = "ok" /\ calls[d].outcome = "InvalidStateTransition"
           \/ calls[d].outcome = "ok" /\ calls[c].outcome = "InvalidStateTransition"

\* C2: every visit has one of the five statuses, and a visit with a
\* check_out_time has status checked_out.
C2_StatusAndCheckOutTime ==
    \A v \in DOMAIN visits :
        /\ visits[v].status \in Statuses
        /\ visits[v].check_out_time # NoTime => visits[v].status = "checked_out"

\* C3: a visit's status, check_out_time and denial_reason change only in the
\* update of a call made by the owner of the visit's premise on that visit;
\* every step of any other principal leaves every visit as it was.
C3_OnlyOwnerMutates ==
    [][\A v \in DOMAIN visits :
         ( \/ visits'[v].status # visits[v].status
           \/ visits'[v].check_out_time # visits[v].check_out_time
           \/ visits'[v].denial_reason # visits[v].denial_reason )
         => \E c \in Calls :
               /\ calls[c].pc = "update"
               /\ Completes(c)
               /\ calls[c].visitId = v
               /\ calls[c].user = OwnerOfVisit(v)]_vars

\* A non-owner with a premise of its own has approved from the dashboard a
\* visit of another premise, was told it succeeded, and the visit is as before.
C3_Witness ==
    \E c \in Calls :
        /\ calls[c].pc = "done"
        /\ calls[c].kind = "approve"
        /\ calls[c].outcome = "ok"
        /\ calls[c].visitId \in DOMAIN visits
        /\ calls[c].user \in Users
        /\ calls[c].user # OwnerOfVisit(calls[c].visitId)
        /\ visits[calls[c].visitId].status = "pending_approval"

\* C4: denied and checked_out are terminal: no step changes the status of a
\* visit that is denied or checked_out.
C4_TerminalStatuses ==
    [][\A v \in DOMAIN visits :
         visits[v].status \in {"denied", "checked_out"}
         => visits'[v].status = visits[v].status]_vars

\* C5: two checkouts by the owner that both read the visit as approved before
\* either writes do not both succeed.
C5_OneCheckoutSucceeds ==
    \A c, d \in Calls :
        ( /\ c # d
          /\ calls[c].pc = "done" /\ calls[d].pc = "done"
          /\ calls[c].kind = "checkout" /\ calls[d].kind = "checkout"
          /\ calls[c].visitId = calls[d].visitId
          /\ ByOwner(c) /\ ByOwner(d)
          /\ calls[c].seen = "approved" /\ calls[d].seen = "approved" )
        => ~(calls[c].outcome = "ok" /\ calls[d].outcome = "ok")

\* C6: an approve by the owner on a visit that is approved, denied or
\* checked_out fails with InvalidStateTransition and leaves the status as it is.
C6_ApproveOnlyWhenAwaiting ==
    [][\A c \in Calls :
         ( /\ calls[c].kind = "approve"
           /\ calls[c].pc = "update"
           /\ Completes(c)
           /\ ByOwner(c)
           /\ ~AwaitingDecision(visits[calls[c].visitId].status) )
         => /\ calls'[c].outcome = "InvalidStateTransition"
            /\ visits'[calls[c].visitId].status = visits[calls[c].visitId].status]_vars

\* C7: a checkout by the owner is answered on the status it reads: checked_out
\* gives AlreadyCheckedOut, any other status but approved gives NotApproved,
\* both without writing and without a later write by this call; only a call
\* that read approved goes on to its update and succeeds.
C7_CheckoutStatusGuard ==
    [][\A c \in Calls :
         /\ ( /\ calls[c].pc = "idle"
              /\ calls'[c].kind = "checkout"
              /\ calls'[c].visitId \in DOMAIN visits
              /\ calls'[c].user = OwnerOfVisit(calls'[c].visitId) )
            => LET st == visits[calls'[c].visitId].status
               IN  /\ visits' = visits
                   /\ st = "checked_out"
                        => calls'[c].pc = "done" /\ calls'[c].outcome = "AlreadyCheckedOut"
                   /\ st \notin {"checked_out", "approved"}
                        => calls'[c].pc = "done" /\ calls'[c].outcome = "NotApproved"
                   /\ st = "approved" => calls'[c].pc = "update"
         /\ ( /\ calls[c].kind = "checkout"
              /\ Completes(c)
              /\ calls'[c].outcome = "ok" )
            => calls[c].seen = "approved"]_vars

\* The owner's checkout of a visit that is checked out was answered
\* AlreadyCheckedOut and the visit kept its status and check_out_time.
C7_Witness ==
    \E c \in Calls :
        /\ calls[c].pc = "done"
        /\ calls[c].kind = "checkout"
        /\ ByOwner(c)
        /\ calls[c].outcome = "AlreadyCheckedOut"
        /\ visits[calls[c].visitId].status = "checked_out"
        /\ visits[calls[c].visitId].check_out_time # NoTime

\* C8: a deny by the owner, through the dashboard or the deny route, whose
\* reason is empty or whitespace-only is answered InvalidInput and changes no
\* visit.
C8_BlankReasonRejected ==
    [][\A c \in Calls :
         ( /\ calls'[c].kind \in {"deny", "denyRoute"}
           /\ Completes(c)
           /\ calls'[c].visitId \in DOMAIN visits
           /\ calls'[c].user = OwnerOfVisit(calls'[c].visitId)
           /\ ReasonBlank(calls'[c].reason) )
         => /\ calls'[c].outcome = "InvalidInput"
            /\ visits' = visits]_vars

\* C9: a visit with status denied has a denial_reason that is not empty.
C9_DeniedHasReason ==
    \A v \in DOMAIN visits :
        visits[v].status = "denied"
        => /\ visits[v].denial_reason # NoReason
           /\ visits[v].denial_reason # <<>>

\* C10: a route call by an authenticated principal on a visit that exists but
\* belongs to the premise of another owner is answered Forbidden, and one on
\* a visit id that does not exist is answered NotFound.
C10_ForbiddenDistinctFromNotFound ==
    \A c \in Calls :
        ( /\ calls[c].pc = "done"
          /\ calls[c].kind \in {"denyRoute", "checkout"}
          /\ calls[c].user \in Users )
        => /\ ( calls[c].visitId \in DOMAIN visits /\ ~ByOwner(c) )
                => calls[c].outcome = "Forbidden"
           /\ calls[c].visitId \notin DOMAIN visits
                => calls[c].outcome = "NotFound"

\* The status each kind of call writes.
TargetStatus(kind) ==
    CASE kind = "approve" -> "approved"
      [] kind \in {"deny", "denyRoute"} -> "denied"
      [] kind = "checkout" -> "checked_out"

\* C11: the owner of a visit's premise always may act.  No call of the owner
\* on an existing visit of the premise is answered Forbidden or NotFound; an
\* approve or deny the owner makes from the loaded dashboard (with a reason
\* that is not blank) or through the deny route on a visit awaiting decision,
\* and a checkout on an approved visit, goes on to its update; and that update
\* leaves the visit in the status the call stands for.
C11_OwnerAlwaysMayAct ==
    [][\A c \in Calls :
         /\ ( /\ Completes(c)
              /\ calls'[c].visitId \in DOMAIN visits
              /\ calls'[c].user = OwnerOfVisit(calls'[c].visitId) )
            => calls'[c].outcome \notin {"Forbidden", "NotFound"}
         /\ ( /\ calls[c].pc = "idle" /\ calls'[c].pc # "idle"
              /\ calls'[c].visitId \in DOMAIN visits
              /\ calls'[c].user = OwnerOfVisit(calls'[c].visitId)
              /\ IF calls'[c].kind = "checkout"
                 THEN visits[calls'[c].visitId].status = "approved"
                 ELSE AwaitingDecision(visits[calls'[c].visitId].status)
              /\ calls'[c].kind \in {"approve", "deny"}
                   => premiseId[calls'[c].user] # NULL
              /\ calls'[c].kind = "deny"
                   => /\ calls'[c].reason # PromptCancelled
                      /\ ~ReasonBlank(calls'[c].reason) )
            => calls'[c].pc = "update"
         /\ ( /\ calls[c].pc = "update"
              /\ Completes(c)
              /\ ByOwner(c) )
            => /\ calls'[c].outcome = "ok"
               /\ visits'[calls[c].visitId].status = TargetStatus(calls[c].kind)]_vars

\* The owner has approved a visit from the dashboard and then checked it
\* out: the checkout answered ok and the visit is checked_out.
C11_Witness ==
    \E c \in Calls :
        /\ calls[c].pc = "done"
        /\ calls[c].kind = "checkout"
        /\ ByOwner(c)
        /\ calls[c].outcome = "ok"
        /\ calls[c].seen = "approved"
        /\ visits[calls[c].visitId].status = "checked_out"

(* ----------------------- properties of the intake ---------------------- *)
\* The QR code row and the form row a submission's selects return, if any.
QrVisible(sub) ==
    /\ sub.qrIdentifier \in DOMAIN qrcodes
    /\ RlsQrcode(sub.user, qrcodes[sub.qrIdentifier])

FormVisible(sub) ==
    /\ QrVisible(sub)
    /\ qrcodes[sub.qrIdentifier].form_id \in DOMAIN forms
    /\ RlsForm(sub.user, forms[qrcodes[sub.qrIdentifier].form_id])

FormOf(sub) == forms[qrcodes[sub.qrIdentifier].form_id]

BodyComplete(sub) == sub.qrIdentifier # "" /\ sub.formData # MissingFormData

\* The submission meets every precondition of the route.
PreconditionsMet(sub) ==
    /\ BodyComplete(sub)
    /\ QrVisible(sub)
    /\ qrcodes[sub.qrIdentifier].is_active
    /\ FormVisible(sub)
    /\ FormOf(sub).is_active
    /\ FormOf(sub).premise_id = qrcodes[sub.qrIdentifier].premise_id

Responded(s) == subs[s].pc = "done"

\* C12: every submission that passes the QR/form preconditions has created
\* exactly one visit of its own and is answered 201 with it, whatever the
\* identity step did.
C12_AcceptedSubmissionSucceeds ==
    \A s \in Subs :
        (Responded(s) /\ PreconditionsMet(subs[s]))
        => /\ HttpStatus(subs[s].outcome) = 201
           /\ subs[s].visitId \in DOMAIN visits
           /\ \A t \in Subs \ {s} : subs[t].visitId # subs[s].visitId

\* C13: a submission that fails a precondition (incomplete body, QR code
\* unknown or inactive, form missing or inactive, premise mismatch) creates
\* and changes nothing: none of its steps touches visits or profiles, it
\* holds no visit, and its response is an error.
C13_RejectedLeavesStoreUnchanged ==
    [][\A s \in Subs :
         (subs'[s] # subs[s] /\ ~PreconditionsMet(subs'[s]))
         => /\ visits' = visits
            /\ profiles' = profiles
            /\ subs'[s].visitId = 0
            /\ subs'[s].visitorIdToLink = NULL
            /\ subs'[s].pc = "done" => HttpStatus(subs'[s].outcome) # 201]_vars

\* A submission got past the QR code and was rejected for its inactive form;
\* it holds no visit and the store is as it began.
C13_Witness ==
    \E s \in Subs :
        /\ Responded(s)
        /\ subs[s].outcome = "This form is no longer active."
        /\ subs[s].visitId = 0
        /\ visits = <<>>
        /\ profiles = SeedProfiles

QrOfVisit(v) == {q \in DOMAIN qrcodes : qrcodes[q].id = visits[v].qrcode_id}

C16_VisitAtCreation ==
    [][\A v \in DOMAIN visits' \ DOMAIN visits :
         /\ visits'[v].status \in {"pending_approval", "checked_in"}
         /\ visits'[v].check_in_time = clock
         /\ visits'[v].check_in_time # NoTime
         /\ visits'[v].check_out_time = NoTime
         /\ visits'[v].denial_reason = NoReason
         /\ visits'[v].visitor_id = NULL]_vars

\* Both intake paths have created a visit: one is held by a call of the
\* submit route, the other came from the visitor form page.
C16_Witness ==
    \E v, w \in DOMAIN visits :
        /\ \E s \in Subs : subs[s].visitId = v
        /\ \A s \in Subs : subs[s].visitId # w
        /\ visits[v].status = "checked_in"
        /\ visits[w].status = "checked_in"
        /\ visits[w].check_in_time # NoTime

\* C17: a visit created by intake is at once in the pending list of the owner
\* of its premise (the owner having one premise, so that the dashboard
\* loads), where the owner can approve or deny it.
C17_CreatedVisitIsPending ==
    \A v \in DOMAIN visits :
        ( /\ AwaitingDecision(visits[v].status)
          /\ Cardinality(OwnPremises(OwnerOfVisit(v))) = 1 )
        => v \in PendingVisits(OwnerOfVisit(v))

\* A submission that met the preconditions and has its response.
Accepted(s) == Responded(s) /\ PreconditionsMet(subs[s])

\* The profiles stored under an email.
IdentitiesOf(email) == {p \in DOMAIN profiles : profiles[p].email = email}

\* C18: of two accepted submissions made one after the other with the same
\* email and different phones, both visits are linked to one and the same
\* profile, and exactly one profile exists for that email.
C18_SameEmailSameIdentity ==
    \A s, t \in Subs :
        ( /\ Accepted(s) /\ Accepted(t)
          /\ s \in subs[t].before
          /\ Truthy(VisitorEmail(subs[s].formData))
          /\ VisitorEmail(subs[s].formData) = VisitorEmail(subs[t].formData)
          /\ Truthy(VisitorPhone(subs[s].formData))
          /\ Truthy(VisitorPhone(subs[t].formData))
          /\ VisitorPhone(subs[s].formData) # VisitorPhone(subs[t].formData) )
        => /\ subs[s].visitId \in DOMAIN visits
           /\ subs[t].visitId \in DOMAIN visits
           /\ visits[subs[s].visitId].visitor_id # NULL
           /\ visits[subs[s].visitId].visitor_id = visits[subs[t].visitId].visitor_id
           /\ Cardinality(IdentitiesOf(VisitorEmail(subs[s].formData))) = 1

\* A submission with a name and neither email nor phone.
NameOnly(fd) ==
    /\ Truthy(VisitorFullName(fd))
    /\ ~Truthy(VisitorEmail(fd))
    /\ ~Truthy(VisitorPhone(fd))

C20_ConcurrentSameEmail ==
    \A s, t \in Subs :
        ( /\ s # t
          /\ Accepted(s) /\ Accepted(t)
          /\ s \notin subs[t].before /\ t \notin subs[s].before
          /\ Truthy(VisitorEmail(subs[s].formData))
          /\ VisitorEmail(subs[s].formData) = VisitorEmail(subs[t].formData)
          /\ subs[s].visitorIdToLink = NULL /\ subs[t].visitorIdToLink = NULL )
        => /\ HttpStatus(subs[s].outcome) = 201
           /\ HttpStatus(subs[t].outcome) = 201
           /\ visits[subs[s].visitId].visitor_id # NULL
           /\ visits[subs[s].visitId].visitor_id = visits[subs[t].visitId].visitor_id
           /\ Cardinality(IdentitiesOf(VisitorEmail(subs[s].formData))) <= 1

\* What the two lookups return for a submission's form data in this store.
EmailMatch(fd) ==
    IF Truthy(VisitorEmail(fd))
    THEN MaybeSingle({p \in DOMAIN profiles : profiles[p].email = VisitorEmail(fd)})
    ELSE NULL

PhoneMatch(fd) ==
    IF Truthy(VisitorPhone(fd))
    THEN MaybeSingle({p \in DOMAIN profiles :
                        profiles[p].phone_number = VisitorPhone(fd)})
    ELSE NULL

\* C21: identity resolution is ordered, first match wins.  The phone lookup
\* is awaited only while nothing was found by email, the new-visitor branch
\* only when neither lookup matched; an accepted submission whose email
\* matches a profile is linked to that profile whatever its phone matches,
\* one matched by phone alone is linked to the phone's profile, and no
\* profile is created for a submission that matched.
C21_FirstMatchWins ==
    \A s \in Subs :
        LET fd == subs[s].formData
        IN  /\ subs[s].pc = "findByPhone"
                 => subs[s].visitorIdToLink = NULL /\ EmailMatch(fd) = NULL
            /\ subs[s].pc = "createVisitor"
                 => EmailMatch(fd) = NULL /\ PhoneMatch(fd) = NULL
            /\ (Accepted(s) /\ EmailMatch(fd) # NULL)
                 => visits[subs[s].visitId].visitor_id = EmailMatch(fd)
            /\ (Accepted(s) /\ EmailMatch(fd) = NULL /\ PhoneMatch(fd) # NULL)
                 => visits[subs[s].visitId].visitor_id = PhoneMatch(fd)
            /\ (Accepted(s) /\ (EmailMatch(fd) # NULL \/ PhoneMatch(fd) # NULL))
                 => /\ DOMAIN profiles = DOMAIN SeedProfiles
                    /\ HttpStatus(subs[s].outcome) = 201

\* A submission whose email is bob's and whose phone is alice's was accepted
\* and its visit is linked to bob.
C21_Witness ==
    \E s \in Subs :
        /\ Accepted(s)
        /\ EmailMatch(subs[s].formData) = "bob"
        /\ PhoneMatch(subs[s].formData) = "alice"
        /\ visits[subs[s].visitId].visitor_id = "bob"

\* C22: retrying a transition is idempotent.  A request of the owner that
\* is received when the visit is already in the status the request stands
\* for (its first application has succeeded; a deny repeats a reason that is
\* not blank) is rejected at once and leaves every visit as it is.
C22_RetryIsRejected ==
    [][\A c \in Calls :
         ( /\ calls[c].pc = "idle" /\ calls'[c].pc # "idle"
           /\ calls'[c].kind \in DecisionKinds \cup {"checkout"}
           /\ calls'[c].visitId \in DOMAIN visits
           /\ calls'[c].user = OwnerOfVisit(calls'[c].visitId)
           /\ calls'[c].kind = "deny"
                => /\ calls'[c].reason # PromptCancelled
                   /\ ~ReasonBlank(calls'[c].reason)
           /\ visits[calls'[c].visitId].status = TargetStatus(calls'[c].kind) )
         => /\ calls'[c].pc = "done"
            /\ calls'[c].outcome # "ok"
            /\ visits' = visits]_vars


\* C23: in every reachable state an owner has at most one premise, however
\* often and however interleaved the complete-profile submit handler runs.
C23_OnePremisePerOwner ==
    \A p, q \in DOMAIN premises :
        premises[p].owner_id = premises[q].owner_id => p = q

\* C23 witness: an owner who already has a premise submitted again, and the
\* second run ended with the premise error, the first premise still alone.
C23_Witness ==
    \E r \in Runs :
        /\ runs[r].pc = "done"
        /\ runs[r].outcome = "Error creating premise"
        /\ Cardinality({p \in DOMAIN premises :
                          premises[p].owner_id = runs[r].user}) = 1


FormOwnerMatchesPremiseOwner ==
    \A f \in DOMAIN forms :
        /\ forms[f].premise_id \in DOMAIN premises
        /\ forms[f].owner_id = premises[forms[f].premise_id].owner_id

\* C24: a form's name and definition change only in an edit issued by the
\* owner of the form's premise, an edit by anyone else leaves both as they
\* were, and every form created by the new-form page carries as owner_id
\* the owner of its premise, so the owner_id guard admits exactly that owner.
C24_OnlyPremiseOwnerEditsForm ==
    /\ []FormOwnerMatchesPremiseOwner
    /\ [][\A f \in DOMAIN forms :
            \/ /\ forms'[f].name = forms[f].name
               /\ forms'[f].definition = forms[f].definition
            \/ /\ forms'[f].attempt = premises[forms[f].premise_id].owner_id
               /\ forms'[f].attempt = forms[f].owner_id]_vars

\* C24 witness: the last edit request addressed to a form came from a
\* signed-in principal who has a premise of their own but does not own the
\* form's premise.
C24_Witness ==
    \E f \in DOMAIN forms :
        /\ forms[f].attempt \in Users
        /\ forms[f].attempt # premises[forms[f].premise_id].owner_id
        /\ LoadedPremise(forms[f].attempt) # NULL


\* C25: the deny and checkout routes decide in the order authenticated,
\* visit exists, principal owns the premise, status guard: a request without
\* a session is answered Unauthorized and writes nothing, one for a visit
\* that does not exist is answered NotFound, and one by a principal who does
\* not own the visit's premise is answered Forbidden whatever the visit's
\* status, never by the status guard.
C25_CheckOrder ==
    [][\A c \in Calls :
         ( /\ calls[c].pc = "idle"
           /\ calls'[c].kind \in {"denyRoute", "checkout"} )
         => LET sess == calls'[c].user
                vid == calls'[c].visitId
            IN  /\ sess = NoSession
                     => /\ calls'[c].pc = "done"
                        /\ calls'[c].outcome = "Unauthorized"
                        /\ visits' = visits
                /\ ( sess # NoSession /\ vid \notin DOMAIN visits )
                     => /\ calls'[c].pc = "done"
                        /\ calls'[c].outcome = "NotFound"
                /\ ( /\ sess # NoSession
                     /\ vid \in DOMAIN visits
                     /\ sess # OwnerOfVisit(vid) )
                     => /\ calls'[c].pc = "done"
                        /\ calls'[c].outcome = "Forbidden"
                        /\ visits' = visits]_vars


\* C26: whenever a visit row is inserted, by the submit route or by the
\* visitor form page, the QR code and the form it names are active in the
\* store at that moment, also when a deactivation came between the path's
\* check and its insert.
C26_NoVisitAgainstInactive ==
    [][Len(visits') > Len(visits)
         => LET row == visits'[Len(visits')]
            IN  /\ \E q \in DOMAIN qrcodes :
                     qrcodes[q].id = row.qrcode_id /\ qrcodes[q].is_active
                /\ row.form_id \in DOMAIN forms
                /\ forms[row.form_id].is_active]_vars


\* C27: a visit that carries a denial_reason has status denied.
C27_ReasonOnlyOnDenied ==
    \A v \in DOMAIN visits :
        visits[v].denial_reason # NoReason => visits[v].status = "denied"


\* The columns of a visit that no decision and no linking may touch.
FrameOf(row) ==
    <<row.premise_id, row.form_id, row.qrcode_id, row.form_data,
      row.check_in_time>>

\* C28: no step changes premise_id, form_id, qrcode_id, form_data or
\* check_in_time of an existing visit, and the linking update of the submit
\* route changes visitor_id only: status, check_out_time and denial_reason
\* stay as the store holds them at that moment, also when a decision was
\* applied since the visit was inserted.
C28_FrameOfVisit ==
    [][/\ \A v \in DOMAIN visits :
            /\ v \in DOMAIN visits'
            /\ FrameOf(visits'[v]) = FrameOf(visits[v])
       /\ \A s \in Subs :
            ( subs[s].pc = "linkVisit" /\ subs'[s].pc # "linkVisit" )
            => \A v \in DOMAIN visits :
                 [visits'[v] EXCEPT !.visitor_id = visits[v].visitor_id]
                   = visits[v]]_vars

\* C28 witness: a visit the submit route linked to a visitor and the owner
\* decided holds the visitor, the decided status and the columns of its
\* insert.
C28_Witness ==
    \E v \in DOMAIN visits :
        /\ visits[v].visitor_id # NULL
        /\ visits[v].status \in {"approved", "denied"}
        /\ visits[v].form_data \in FormDatas
        /\ \E s \in Subs : /\ subs[s].visitId = v
                           /\ subs[s].pc = "done"
                           /\ subs[s].outcome = "Visit recorded successfully"
        /\ \E c \in Calls : /\ calls[c].visitId = v
                            /\ calls[c].pc = "done"
                            /\ calls[c].outcome = "ok"


\* C29: every visit the submit route created names a QR code of the store,
\* carries that QR code's form_id and premise_id, and the form it names
\* belongs to the same premise.
C29_VisitConsistentWithQr ==
    \A v \in DOMAIN visits :
        \E q \in DOMAIN qrcodes :
            /\ visits[v].qrcode_id = qrcodes[q].id
            /\ visits[v].form_id = qrcodes[q].form_id
            /\ visits[v].premise_id = qrcodes[q].premise_id
            /\ visits[v].form_id \in DOMAIN forms
            /\ forms[visits[v].form_id].premise_id = visits[v].premise_id

\* C29 witness: the route answered 201 for a submission through a QR code
\* and its visit is in the store.
C29_Witness ==
    \E s \in Subs :
        /\ subs[s].pc = "done"
        /\ subs[s].outcome = "Visit recorded successfully"
        /\ subs[s].visitId \in DOMAIN visits
        /\ subs[s].qrIdentifier \in DOMAIN qrcodes
        /\ visits[subs[s].visitId].qrcode_id = qrcodes[subs[s].qrIdentifier].id


\* C30: for every session, profile and premise and every starting path,
\* the chain of redirects of the middleware, the dashboard page and the
\* complete-profile page never requests a path it requested before and
\* comes to rest on a page that redirects no further.
C30_RoutingTerminates ==
    /\ [](nav.path \notin nav.seen /\ nav.hops < MaxHops)
    /\ (nav.stage \in {"request", "page"}) ~> (nav.stage = "settled")

\* C30 witness: a chain through the complete-profile page and the
\* middleware: a signed-in owner with profile and premise came to rest on
\* manage-visits after two redirects.
C30_Witness ==
    /\ nav.stage = "settled"
    /\ nav.hops = 2
    /\ nav.path = "/dashboard/manage-visits"
    /\ nav.seen = {"/auth/complete-profile", "/dashboard"}

====
